---- MODULE Spec2Model ----
(***************************************************************************)
(* Phone Check (src/src/App.tsx): slot detection and identity              *)
(* reconciliation.  Text is modelled as a sequence of one-character        *)
(* strings, so that building, parsing and upper-casing an identifier are   *)
(* computed character by character.                                        *)
(***************************************************************************)
EXTENDS Integers, Sequences, FiniteSets, TLC

\* ---------------------------------------------------------------- constants
ROWS == 5
COLS == 12

\* JS null / undefined in a text-valued slot (a color, a name).
null == "<null>"
\* JS null in the numeric grade slot of a parsed identifier.
NoGrade == -1

\* ---------------------------------------------------------------- text
DigitChars == <<"0", "1", "2", "3", "4", "5", "6", "7", "8", "9">>

IsDigit(c) == \E d \in 1..10 : DigitChars[d] = c

DigitVal(c) == (CHOOSE d \in 1..10 : DigitChars[d] = c) - 1

\* `${n}` for a non-negative integer n.
RECURSIVE NumToStr(_)
NumToStr(n) ==
  IF n < 10 THEN <<DigitChars[n + 1]>>
  ELSE NumToStr(n \div 10) \o <<DigitChars[(n % 10) + 1]>>

\* parseInt(s, 10) for a text of digits.
RECURSIVE parseInt(_)
parseInt(s) ==
  IF Len(s) = 0 THEN 0
  ELSE parseInt(SubSeq(s, 1, Len(s) - 1)) * 10 + DigitVal(s[Len(s)])

AllDigits(s) == \A i \in 1..Len(s) : IsDigit(s[i])

UpperChar(c) ==
  CASE c = "a" -> "A"
    [] c = "b" -> "B"
    [] c = "c" -> "C"
    [] c = "d" -> "D"
    [] c = "e" -> "E"
    [] c = "f" -> "F"
    [] c = "s" -> "S"
    [] c = "m" -> "M"
    [] c = "z" -> "Z"
    [] OTHER -> c

toUpperCase(s) == [i \in 1..Len(s) |-> UpperChar(s[i])]

IsSpace(c) == c = " "

RECURSIVE trimStart(_)
trimStart(s) ==
  IF Len(s) > 0 /\ IsSpace(s[1]) THEN trimStart(Tail(s)) ELSE s

RECURSIVE trimEnd(_)
trimEnd(s) ==
  IF Len(s) > 0 /\ IsSpace(s[Len(s)]) THEN trimEnd(SubSeq(s, 1, Len(s) - 1)) ELSE s

trim(s) == trimEnd(trimStart(s))

\* The text with its inner whitespace kept.
keepWhitespace(s) == s

\* s.replace(/\s+/g, "")
removeWhitespace(s) == SelectSeq(s, LAMBDA c : ~IsSpace(c))

\* ---------------------------------------------------------------- identifier codec
SM1 == <<"S", "M", "1">>
SM2 == <<"S", "M", "2">>
BOX_OPTIONS == <<(<<"A">>), (<<"B">>), (<<"C">>), (<<"D">>), (<<"E">>), (<<"F">>), SM1, SM2>>
BoxLetters == {"A", "B", "C", "D", "E", "F"}

\* The result of a failed parse (JS null).
NoParse == [ok |-> FALSE, grade |-> NoGrade, box |-> <<>>, slot |-> 0]

\* /^(SM1|SM2)-?(\d{1,3})$/
matchSM(s) ==
  IF Len(s) >= 4 /\ SubSeq(s, 1, 3) \in {SM1, SM2}
  THEN LET rest == SubSeq(s, 4, Len(s))
           digits == IF rest[1] = "-" THEN Tail(rest) ELSE rest
       IN  IF Len(digits) \in 1..3 /\ AllDigits(digits)
           THEN [ok |-> TRUE, grade |-> NoGrade, box |-> SubSeq(s, 1, 3),
                 slot |-> parseInt(digits)]
           ELSE NoParse
  ELSE NoParse

\* Number of leading digits of s.
RECURSIVE leadingDigits(_)
leadingDigits(s) ==
  IF Len(s) > 0 /\ IsDigit(s[1]) THEN 1 + leadingDigits(Tail(s)) ELSE 0

\* /^(\d{1,2})([ABCDEF])(\d{1,3})$/
matchGB(s) ==
  LET k == leadingDigits(s)
  IN  IF k \in 1..2 /\ Len(s) >= k + 2 /\ s[k + 1] \in BoxLetters
      THEN LET digits == SubSeq(s, k + 2, Len(s))
           IN  IF Len(digits) \in 1..3 /\ AllDigits(digits)
               THEN [ok |-> TRUE, grade |-> parseInt(SubSeq(s, 1, k)),
                     box |-> <<s[k + 1]>>, slot |-> parseInt(digits)]
               ELSE NoParse
      ELSE NoParse

parseSecurityNumber(sn) ==
  LET s == removeWhitespace(toUpperCase(trim(sn)))
  IN  IF Len(s) = 0 THEN NoParse
      ELSE IF matchSM(s).ok THEN matchSM(s)
      ELSE IF matchGB(s).ok THEN matchGB(s)
      ELSE NoParse

\* The builder without the standalone-box form.
buildWithoutStandalone(grade, box, slot) ==
  NumToStr(grade) \o toUpperCase(box) \o NumToStr(slot)

buildSecurityNumber(grade, box, slot) ==
  LET b == toUpperCase(box)
  IN  IF b = SM1 \/ b = SM2 THEN b \o <<"-">> \o NumToStr(slot)
      ELSE NumToStr(grade) \o b \o NumToStr(slot)

\* ---------------------------------------------------------------- state
VARIABLES
  started,    \* the startup effect has run to completion
  roster,     \* RosterRow[] (normalized), <<>> until loaded
  imageFile,  \* a photo has been chosen
  profiles,   \* in-memory baselines: identifier -> DeviceProfile
  store,      \* localStorage[LS_KEY]: the persisted array of DeviceProfile
  results,    \* JoinedRow[] on display, <<>> for null
  pending,    \* imports suspended in `await file.text()`: their captured state
  last,       \* the handler that ran last: whether it raised the alert, and
              \* whether the profiles it had captured were out of date
  clock,      \* the time new Date() reads, advanced by every handler run
  codec,      \* identifier codec: input triple, built text, parsed value
  grid,       \* grid mapper: image size, crop, computed cells
  cell        \* photometric pass over one cell: samples, thresholds, measurement

vars ==
  <<started, roster, imageFile, profiles, store, results, pending, last, clock, codec, grid,
    cell>>

\* useState defaults
grade == 9
box == <<"A">>

\* ---------------------------------------------------------------- persistence
\* An empty map (JS {}).
EmptyMap == [k \in {} |-> null]

Put(map, key, value) == [k \in DOMAIN map \cup {key} |-> IF k = key THEN value ELSE map[k]]

Has(map, key) == key \in DOMAIN map

\* No baseline color, whatever the map holds.
colorNone(map, key) == null

\* prior[sec]?.color ?? null
colorOf(map, key) == IF Has(map, key) THEN map[key].color ELSE null

RECURSIVE loadLoop(_, _, _)
loadLoop(arr, i, map) ==
  IF i > Len(arr) THEN map
  ELSE loadLoop(arr, i + 1, Put(map, toUpperCase(arr[i].securityNumber), arr[i]))

loadProfiles(raw) == loadLoop(raw, 1, EmptyMap)

\* Collation rank used for securityNumber.localeCompare.
CollationOrder ==
  <<" ", "-", "0", "1", "2", "3", "4", "5", "6", "7", "8", "9",
    "a", "A", "b", "B", "c", "C", "d", "D", "e", "E", "f", "F",
    "m", "M", "s", "S", "z", "Z">>

Rank(c) == CHOOSE i \in 1..Len(CollationOrder) : CollationOrder[i] = c

RECURSIVE localeLess(_, _)
localeLess(a, b) ==
  IF Len(b) = 0 THEN FALSE
  ELSE IF Len(a) = 0 THEN TRUE
  ELSE IF Rank(a[1]) # Rank(b[1]) THEN Rank(a[1]) < Rank(b[1])
  ELSE localeLess(Tail(a), Tail(b))

RECURSIVE sortProfiles(_)
sortProfiles(S) ==
  IF S = {} THEN <<>>
  ELSE LET first == CHOOSE p \in S :
                      \A q \in S : ~localeLess(q.securityNumber, p.securityNumber)
       IN  <<first>> \o sortProfiles(S \ {first})

\* A save that writes an empty array.
saveNothing(map) == <<>>

\* The array written to localStorage.
saveProfiles(map) == sortProfiles({map[k] : k \in DOMAIN map})

\* ---------------------------------------------------------------- scan
\* A slot index that strides by the row count.
slotOfByRows(rr, cc) == rr * ROWS + cc + 1

\* The slot index of the cell at (rr, cc).
slotOf(rr, cc) == rr * COLS + cc + 1

\* buildSecurityNumber(grade, box, slot) for every slot of the selected box.
slotIdentifier == [slot \in 1..(ROWS * COLS) |-> buildSecurityNumber(grade, box, slot)]

\* One DetectionRow: the presence and color the photometric pass finds in the
\* cell at (rr, cc) of the photo, labelled with the slot's identifier.
detection(photo, rr, cc) ==
  [slot |-> slotOf(rr, cc),
   securityNumber |-> slotIdentifier[slotOf(rr, cc)],
   phonePresent |-> photo[<<rr, cc>>].phonePresent,
   color |-> photo[<<rr, cc>>].color]

\* for (rr...) for (cc...) detections.push(...): the k-th row pushed is the
\* detection of the cell at row (k-1) div COLS, column (k-1) mod COLS.
scanCells(photo) ==
  [k \in 1..(ROWS * COLS) |-> detection(photo, (k - 1) \div COLS, (k - 1) % COLS)]

\* The index in which an earlier pair keeps its key.
RECURSIVE rosterIndexFirst(_, _, _)
rosterIndexFirst(ros, i, index) ==
  IF i > Len(ros) THEN index
  ELSE IF Has(index, toUpperCase(ros[i].securityNumber))
  THEN rosterIndexFirst(ros, i + 1, index)
  ELSE rosterIndexFirst(ros, i + 1, Put(index, toUpperCase(ros[i].securityNumber), ros[i]))

\* new Map(roster.map(r => [r.securityNumber.toUpperCase(), r])): a later pair
\* replaces an earlier pair with the same key.
RECURSIVE rosterIndexFrom(_, _, _)
rosterIndexFrom(ros, i, index) ==
  IF i > Len(ros) THEN index
  ELSE rosterIndexFrom(ros, i + 1, Put(index, toUpperCase(ros[i].securityNumber), ros[i]))

rosterIndex(ros) == rosterIndexFrom(ros, 1, EmptyMap)

\* JS truthiness of a text value.
truthy(text) == text # null /\ text # ""

\* The derivation with presence tested before the roster match.
deriveStatusPresenceFirst(hasRo, phonePresent, color, expected) ==
  IF ~phonePresent THEN "MISSING"
  ELSE IF ~hasRo THEN "UNASSIGNED"
  ELSE IF truthy(expected) /\ color # expected THEN "SUSPICIOUS"
  ELSE "TURNED_IN"

\* The derivation that flags every present phone that has a baseline.
deriveStatusAnyBaseline(hasRo, phonePresent, color, expected) ==
  IF ~hasRo THEN "UNASSIGNED"
  ELSE IF ~phonePresent THEN "MISSING"
  ELSE IF truthy(expected) THEN "SUSPICIOUS"
  ELSE "TURNED_IN"

deriveStatus(hasRo, phonePresent, color, expected) ==
  IF ~hasRo THEN "UNASSIGNED"
  ELSE IF ~phonePresent THEN "MISSING"
  ELSE IF truthy(expected) /\ color # expected THEN "SUSPICIOUS"
  ELSE "TURNED_IN"

\* { ...d, ...ro, expectedColor: expected, status }
joinRow(d, index, prior) ==
  IF Has(index, d.securityNumber)
  THEN [slot |-> d.slot,
        securityNumber |-> index[d.securityNumber].securityNumber,
        phonePresent |-> d.phonePresent,
        color |-> d.color,
        personId |-> index[d.securityNumber].personId,
        fullName |-> index[d.securityNumber].fullName,
        currentGrade |-> index[d.securityNumber].currentGrade,
        expectedColor |-> colorOf(prior, d.securityNumber),
        status |-> deriveStatus(TRUE, d.phonePresent, d.color,
                                colorOf(prior, d.securityNumber))]
  ELSE [slot |-> d.slot,
        securityNumber |-> d.securityNumber,
        phonePresent |-> d.phonePresent,
        color |-> d.color,
        personId |-> null,
        fullName |-> null,
        currentGrade |-> null,
        expectedColor |-> colorOf(prior, d.securityNumber),
        status |-> deriveStatus(FALSE, d.phonePresent, d.color,
                                colorOf(prior, d.securityNumber))]

\* Learning without the check for an existing baseline.
learnsAlways(r, map) == truthy(r.fullName) /\ r.phonePresent

\* r.fullName && r.phonePresent && !updatedProfiles[r.securityNumber]
learns(r, map) == truthy(r.fullName) /\ r.phonePresent /\ ~Has(map, r.securityNumber)

RECURSIVE learnLoop(_, _, _, _)
learnLoop(joined, i, updatedProfiles, now) ==
  IF i > Len(joined) THEN updatedProfiles
  ELSE LET r == joined[i]
       IN  learnLoop(joined, i + 1,
             IF learns(r, updatedProfiles)
             THEN Put(updatedProfiles, r.securityNumber,
                      [securityNumber |-> r.securityNumber, color |-> r.color,
                       lastUpdated |-> now])
             ELSE updatedProfiles,
             now)

\* The row left as the join made it.
backfillNone(r, updatedProfiles) == r

\* also reflect expectedColor in current table
backfill(r, updatedProfiles) ==
  IF ~truthy(r.expectedColor) /\ Has(updatedProfiles, r.securityNumber)
  THEN [r EXCEPT !.expectedColor = updatedProfiles[r.securityNumber].color]
  ELSE r

\* ---------------------------------------------------------------- import
\* for (const p of arr) { ... }: a null record throws at p.securityNumber.
RECURSIVE importLoop(_, _, _, _)
importLoop(arr, i, map, now) ==
  IF i > Len(arr) THEN [ok |-> TRUE, map |-> map]
  ELSE LET p == arr[i]
           key == toUpperCase(p.securityNumber)
       IN  IF p.isNull THEN [ok |-> FALSE, map |-> map]
           ELSE IF Len(key) = 0 THEN importLoop(arr, i + 1, map, now)
           ELSE importLoop(arr, i + 1,
                  Put(map, key,
                      [securityNumber |-> key, color |-> p.color,
                       lastUpdated |-> IF p.lastUpdated # 0 THEN p.lastUpdated ELSE now]),
                  now)

\* JSON.parse(text) followed by the merge loop: whether it completes, and the map.
importMerge(file, snapshot, now) ==
  IF file.kind \in {"text", "object"} THEN [ok |-> FALSE, map |-> snapshot]
  ELSE importLoop(file.arr, 1, snapshot, now)

\* refresh expectedColor in current results
refreshRow(r, map) ==
  LET expected == colorOf(map, r.securityNumber)
  IN  [r EXCEPT
         !.expectedColor = expected,
         !.status =
           IF truthy(r.fullName) /\ r.phonePresent /\ truthy(expected) /\ r.color # expected
           THEN "SUSPICIOUS"
           ELSE IF truthy(r.fullName) /\ r.phonePresent THEN "TURNED_IN"
           ELSE r.status]

\* ---------------------------------------------------------------- inputs
\* Imports that may be suspended at once.
MaxPending == 2

\* The session ends when the clock reaches MaxClock.
MaxClock == 8


Profile(sn, color, at) == [securityNumber |-> sn, color |-> color, lastUpdated |-> at]

Id1 == <<"9", "A", "1">>
Id37 == <<"9", "A", "3", "7">>

\* What an earlier session left in localStorage.
InitialStores == {<<>>, <<Profile(Id1, "red", 1)>>}

Sheet(pid, name, sn) ==
  [personId |-> pid, fullName |-> name, securityNumber |-> sn, currentGrade |-> "9"]

\* Rows of roster.xlsx as read by sheet_to_json.
RosterSheets ==
  { <<Sheet("p1", "", Id1)>>,
    <<Sheet("p2", "Ann", <<" ", "9", "a", "1", " ">>), Sheet("p3", "Bob", Id37),
      [Sheet("p4", "Cy", Id37) EXCEPT !.currentGrade = "10"]>>,
    <<Sheet("p5", "Dee", <<"9", " ", "A", "3", "7">>), Sheet("p6", "Eve", <<"0", "9", "A", "1">>)>> }

CellLooks ==
  { [phonePresent |-> FALSE, color |-> "gray"],
    [phonePresent |-> TRUE, color |-> "black"],
    [phonePresent |-> TRUE, color |-> "red"] }

Cells == (0..(ROWS - 1)) \X (0..(COLS - 1))

\* Photos: two cells vary, every other cell is an empty compartment.
Photos ==
  { [c \in Cells |->
       IF c = <<0, 0>> THEN a
       ELSE IF c = <<3, 0>> THEN b
       ELSE [phonePresent |-> FALSE, color |-> "gray"]] : a \in CellLooks, b \in CellLooks }

Rec(sn, color, at) ==
  [isNull |-> FALSE, securityNumber |-> sn, color |-> color, lastUpdated |-> at]

RecA == Rec(<<"9", "a", "1">>, "black", 0)
RecA2 == Rec(Id1, "red", 1)
RecB == Rec(Id37, "red", 0)
RecNoSn == Rec(<<>>, "red", 0)
RecNoColor == Rec(Id1, null, 0)
RecNull == [isNull |-> TRUE, securityNumber |-> <<>>, color |-> null, lastUpdated |-> 0]

File(kind, arr) == [kind |-> kind, arr |-> arr]

\* Contents of the chosen file: unparseable text, a JSON object, a JSON string,
\* and JSON arrays of records.
ValidFiles ==
  { File("array", <<>>), File("array", <<RecA>>), File("array", <<RecA2>>),
    File("array", <<RecB>>), File("array", <<RecA, RecB>>),
    File("array", <<RecA, RecA2>>) }

InvalidFiles ==
  { File("text", <<>>), File("object", <<>>), File("string", <<RecNoSn>>),
    File("array", <<RecB, RecNoSn>>), File("array", <<RecNoColor>>),
    File("array", <<RecB, RecNull>>) }

Files == ValidFiles \cup InvalidFiles

\* What the last handler was: `again` marks a scan that directly follows a scan of
\* the same picture (the same detection in every cell).
Last(op, alert, stale) ==
  [op |-> op, alert |-> alert, stale |-> stale, again |-> FALSE]

Tick == clock < MaxClock /\ clock' = clock + 1

\* ---------------------------------------------------------------- actions
Init ==
  /\ started = FALSE
  /\ roster = <<>>
  /\ imageFile = FALSE
  /\ profiles = EmptyMap
  /\ store \in InitialStores
  /\ results = <<>>
  /\ pending = <<>>
  /\ last = Last("init", FALSE, FALSE)
  /\ clock = 2
  /\ codec = <<>>
  /\ grid = <<>>
  /\ cell = <<>>

normalizeRoster(json) ==
  [i \in 1..Len(json) |->
     [json[i] EXCEPT !.securityNumber = trim(toUpperCase(json[i].securityNumber))]]

\* The startup effect: fetch and normalize the roster, then load the profiles.
StartupLoaded ==
  /\ Tick
  /\ ~started
  /\ \E json \in RosterSheets : roster' = normalizeRoster(json)
  /\ started' = TRUE
  /\ profiles' = loadProfiles(store)
  /\ last' = Last("startup", FALSE, FALSE)
  /\ UNCHANGED <<imageFile, store, results, pending, codec, grid, cell>>

\* The startup effect when the roster fetch fails: the profiles are still loaded.
StartupFailed ==
  /\ Tick
  /\ ~started
  /\ started' = TRUE
  /\ profiles' = loadProfiles(store)
  /\ last' = Last("startup", FALSE, FALSE)
  /\ UNCHANGED <<roster, imageFile, store, results, pending, codec, grid, cell>>

\* "Take Picture": setImageFile(...); setResults(null)
TakePicture ==
  /\ Tick
  /\ imageFile' = TRUE
  /\ results' = <<>>
  /\ last' = Last("picture", FALSE, FALSE)
  /\ UNCHANGED <<started, roster, profiles, store, pending, codec, grid, cell>>

\* detections.map((d) => ...)
scanJoined(photo, index, prior) ==
  [k \in 1..(ROWS * COLS) |-> joinRow(scanCells(photo)[k], index, prior)]

backfillAll(joined, updatedProfiles) ==
  [k \in 1..Len(joined) |-> backfill(joined[k], updatedProfiles)]

runScan(photo) ==
  /\ Tick
  /\ imageFile
  /\ Len(roster) # 0
  /\ \E joined \in {scanJoined(photo, index, profiles) : index \in {rosterIndex(roster)}} :
       \E updatedProfiles \in {learnLoop(joined, 1, profiles, clock)} :
         IF Cardinality(DOMAIN updatedProfiles) # Cardinality(DOMAIN profiles)
         THEN /\ profiles' = updatedProfiles
              /\ store' = saveProfiles(updatedProfiles)
              /\ results' = backfillAll(joined, updatedProfiles)
         ELSE /\ results' = joined
              /\ UNCHANGED <<profiles, store>>
  /\ last' = [Last("scan", FALSE, FALSE) EXCEPT !.again =
                /\ last.op = "scan"
                /\ \A k \in 1..Len(results) :
                     /\ scanCells(photo)[k].phonePresent = results[k].phonePresent
                     /\ scanCells(photo)[k].color = results[k].color]
  /\ UNCHANGED <<started, roster, imageFile, pending, codec, grid, cell>>

RunScan == \E photo \in Photos : runScan(photo)

\* importProfiles up to `await file.text()`: the closure holds the profiles and
\* results of the render it was created in.
ImportStart ==
  /\ Tick
  /\ Len(pending) < MaxPending
  /\ pending' = Append(pending, [profiles |-> profiles, results |-> results])
  /\ last' = Last("importStart", FALSE, FALSE)
  /\ UNCHANGED <<started, roster, imageFile, profiles, store, results, codec, grid, cell>>

\* The profiles as they are when the file has been read.
currentProfiles(closure) == profiles

\* const map = { ...profiles }: the profiles of the render that created the closure.
capturedProfiles(closure) == closure.profiles

\* if (results): the results of the render that created the closure.
capturedResults(closure) == closure.results

RemoveAt(seq, i) == SubSeq(seq, 1, i - 1) \o SubSeq(seq, i + 1, Len(seq))

\* importProfiles from the resolution of file.text() to its end.
refreshAll(rows, map) == [k \in 1..Len(rows) |-> refreshRow(rows[k], map)]

importFinish(i, file) ==
  /\ Tick
  /\ pending' = RemoveAt(pending, i)
  /\ \E merged \in {importMerge(file, capturedProfiles(pending[i]), clock)} :
       /\ IF merged.ok
          THEN /\ profiles' = merged.map
               /\ store' = saveProfiles(merged.map)
               /\ results' = IF Len(capturedResults(pending[i])) # 0
                             THEN refreshAll(capturedResults(pending[i]), merged.map)
                             ELSE results
          ELSE UNCHANGED <<profiles, store, results>>
       /\ last' = Last("import", ~merged.ok, pending[i].profiles # profiles)
  /\ UNCHANGED <<started, roster, imageFile, codec, grid, cell>>

ImportFinish ==
  \E i \in 1..Len(pending), file \in Files : importFinish(i, file)

Next ==
  \/ StartupLoaded
  \/ StartupFailed
  \/ TakePicture
  \/ RunScan
  \/ ImportStart
  \/ ImportFinish

Spec == Init /\ [][Next]_vars

\* ---------------------------------------------------------------- codec round trip
\* Grades of one or two digits, and slots of one to three digits.
CodecGrades == 0..99
CodecSlots == (0..12) \cup {23, 37, 59, 60, 99, 100, 101, 555, 998, 999}

CodecInput(g, b, n) ==
  [phase |-> "input", grade |-> g, box |-> b, slot |-> n, text |-> <<>>, parsed |-> NoParse]

InitCodec ==
  /\ started = FALSE
  /\ roster = <<>>
  /\ imageFile = FALSE
  /\ profiles = EmptyMap
  /\ store = <<>>
  /\ results = <<>>
  /\ pending = <<>>
  /\ last = Last("init", FALSE, FALSE)
  /\ clock = 2
  /\ grid = <<>>
  /\ cell = <<>>
  /\ \E g \in CodecGrades, b \in 1..Len(BOX_OPTIONS), n \in CodecSlots :
       codec = CodecInput(g, BOX_OPTIONS[b], n)

\* parseSecurityNumber(buildSecurityNumber(grade, box, slot))
RoundTrip ==
  /\ codec.phase = "input"
  /\ \E text \in {buildSecurityNumber(codec.grade, codec.box, codec.slot)} :
       codec' = [codec EXCEPT !.phase = "done", !.text = text,
                              !.parsed = parseSecurityNumber(text)]
  /\ UNCHANGED <<started, roster, imageFile, profiles, store, results, pending, last,
                 clock, grid, cell>>

NextCodec == RoundTrip

SpecCodec == InitCodec /\ [][NextCodec]_vars

\* ---------------------------------------------------------------- parser
\* Texts handed to parseSecurityNumber: every text of up to three characters over
\* ParseChars, and longer ones of each accepted and rejected shape.
ParseChars == {"1", "0", "2", "A", "f", "S", "M", "-", " ", "Z"}

ShortTexts ==
  {<<>>} \cup {<<a>> : a \in ParseChars} \cup {<<a, b>> : a \in ParseChars, b \in ParseChars}
    \cup {<<a, b, c>> : a \in ParseChars, b \in ParseChars, c \in ParseChars}

LongTexts ==
  { <<"1", "0", "F", "1", "2">>,
    <<"S", "M", "2", "-", "2", "3">>,
    <<"7", "Z", "9">>,
    <<" ", "1", "0", "f", " ", "1", "2", " ">>,
    <<"s", "m", "1", " ", "-", " ", "7">>,
    <<"S", "M", "1", "2", "3", "4">>,
    <<"S", "M", "1", "2", "3", "4", "5">>,
    <<"S", "M", "3", "-", "1">>,
    <<"S", "M", "1", "-", "-", "2">>,
    <<"S", "M", "1", "-">>,
    <<"9", "A", "1", "2", "3">>,
    <<"9", "A", "1", "2", "3", "4">>,
    <<"1", "2", "3", "A", "1">>,
    <<"0", "9", "A", "0", "0", "1">>,
    <<"9", "A", "-", "1">>,
    <<"9", "A", "B", "1">> }

ParseTexts == ShortTexts \cup LongTexts

InitParse ==
  /\ started = FALSE
  /\ roster = <<>>
  /\ imageFile = FALSE
  /\ profiles = EmptyMap
  /\ store = <<>>
  /\ results = <<>>
  /\ pending = <<>>
  /\ last = Last("init", FALSE, FALSE)
  /\ clock = 2
  /\ grid = <<>>
  /\ cell = <<>>
  /\ \E text \in ParseTexts : codec = [phase |-> "input", text |-> text, parsed |-> NoParse]

\* parseSecurityNumber(text)
Parse ==
  /\ codec.phase = "input"
  /\ codec' = [codec EXCEPT !.phase = "done", !.parsed = parseSecurityNumber(codec.text)]
  /\ UNCHANGED <<started, roster, imageFile, profiles, store, results, pending, last,
                 clock, grid, cell>>

NextParse == Parse

SpecParse == InitParse /\ [][NextParse]_vars

\* ---------------------------------------------------------------- grid mapper
\* Math.round((pct / 100) * size) for a percentage and a size that are >= 0.
cropEdge(pct, size) == (2 * pct * size + 100) \div 200

\* Math.ceil(extent / count)
cellSizeCeil(extent, count) == (extent + count - 1) \div count

\* Math.floor(extent / count)
cellSize(extent, count) == extent \div count

\* The outer rectangle of the cell at (rr, cc), with the slot it is labelled with.
outerCell(L, T, cellW, cellH, rr, cc) ==
  [slot |-> slotOf(rr, cc), x0 |-> L + cc * cellW, y0 |-> T + rr * cellH,
   w |-> cellW, h |-> cellH]

\* for (rr...) for (cc...): the cells in the order the scan visits them.
gridCells(L, T, cellW, cellH) ==
  [k \in 1..(ROWS * COLS) |->
     outerCell(L, T, cellW, cellH, (k - 1) \div COLS, (k - 1) % COLS)]

\* Image sizes (naturalWidth, naturalHeight) and crop percentages tried.
ImageSizes == {<<12, 5>>, <<25, 13>>, <<37, 22>>, <<48, 20>>}
CropPercents == {0, 19, 50, 83, 100}

GridInput(size, top, left, right, bottom) ==
  [phase |-> "input", w |-> size[1], h |-> size[2],
   cropTop |-> top, cropLeft |-> left, cropRight |-> right, cropBottom |-> bottom,
   L |-> 0, RR |-> 0, T |-> 0, B |-> 0, cellW |-> 0, cellH |-> 0, cells |-> <<>>]

InitGrid ==
  /\ started = FALSE
  /\ roster = <<>>
  /\ imageFile = FALSE
  /\ profiles = EmptyMap
  /\ store = <<>>
  /\ results = <<>>
  /\ pending = <<>>
  /\ last = Last("init", FALSE, FALSE)
  /\ clock = 2
  /\ codec = <<>>
  /\ cell = <<>>
  /\ \E size \in ImageSizes, top \in CropPercents, left \in CropPercents,
        right \in CropPercents, bottom \in CropPercents :
       /\ top < bottom
       /\ left < right
       /\ grid = GridInput(size, top, left, right, bottom)

\* The geometry pass of runScan.
MapGrid ==
  /\ grid.phase = "input"
  /\ \E L \in {cropEdge(grid.cropLeft, grid.w)}, RR \in {cropEdge(grid.cropRight, grid.w)},
        T \in {cropEdge(grid.cropTop, grid.h)}, B \in {cropEdge(grid.cropBottom, grid.h)} :
       \E cellW \in {cellSize(RR - L, COLS)}, cellH \in {cellSize(B - T, ROWS)} :
         grid' = [grid EXCEPT !.phase = "done", !.L = L, !.RR = RR, !.T = T, !.B = B,
                              !.cellW = cellW, !.cellH = cellH,
                              !.cells = gridCells(L, T, cellW, cellH)]
  /\ UNCHANGED <<started, roster, imageFile, profiles, store, results, pending, last,
                 clock, codec, cell>>

NextGrid == MapGrid

SpecGrid == InitGrid /\ [][NextGrid]_vars

\* ---------------------------------------------------------------- photometric pass
\* Numbers the pass computes by division are kept as exact fractions; 0/0 is NaN.
Frac(n, d) == [num |-> n, den |-> d]

isNaN(q) == q.den = 0

\* q >= r, q < r and q = r for fractions with positive denominators
fracGeq(q, r) == q.num * r.den >= r.num * q.den
fracLess(q, r) == q.num * r.den < r.num * q.den
fracEq(q, r) == q.num * r.den = r.num * q.den

RECURSIVE gcd(_, _)
gcd(a, b) == IF b = 0 THEN a ELSE gcd(b, a % b)

\* The same number in lowest terms (n >= 0, d > 0).
lowest(n, d) == Frac(n \div gcd(n, d), d \div gcd(n, d))

fracAdd(q, r) == lowest(q.num * r.den + r.num * q.den, q.den * r.den)
fracMul(q, r) == lowest(q.num * r.num, q.den * r.den)
fracDiv(q, r) == lowest(q.num * r.den, q.den * r.num)

\* Math.max(0, Math.min(1, q))
clamp01(q) ==
  IF q.num < 0 THEN Frac(0, 1) ELSE IF q.num > q.den THEN Frac(1, 1) ELSE q

\* Number(q.toFixed(3)) for 0 <= q, in thousandths: three decimal digits by long
\* division, the last one rounded half up.
toFixed3(q) ==
  LET r0 == q.num % q.den
      r1 == (10 * r0) % q.den
      r2 == (10 * r1) % q.den
      r3 == (10 * r2) % q.den
  IN  1000 * (q.num \div q.den) + 100 * ((10 * r0) \div q.den) + 10 * ((10 * r1) \div q.den)
        + (10 * r2) \div q.den + (IF 2 * r3 >= q.den THEN 1 ELSE 0)

\* The value with its third decimal digit rounded, as a fraction.
rounded3(q) == Frac(toFixed3(q), 1000)

Max3(a, b, c) == IF a >= b /\ a >= c THEN a ELSE IF b >= c THEN b ELSE c
Min3(a, b, c) == IF a <= b /\ a <= c THEN a ELSE IF b <= c THEN b ELSE c

\* Math.max(0, Math.min(255, Math.round(0.299 * r + 0.587 * g + 0.114 * b)))
grayOf(px) ==
  Max3(0, 0, Min3(255, 255, (299 * px[1] + 587 * px[2] + 114 * px[3] + 500) \div 1000))

\* hVal, in degrees (whole for the pixels sampled here)
hueOf(px) ==
  LET mx == Max3(px[1], px[2], px[3])
      diff == mx - Min3(px[1], px[2], px[3])
  IN  IF diff = 0 THEN 0
      ELSE IF mx = px[1] THEN ((60 * (px[2] - px[3])) \div diff + 360) % 360
      ELSE IF mx = px[2] THEN (60 * (px[3] - px[1])) \div diff + 120
      ELSE (60 * (px[1] - px[2])) \div diff + 240

\* sVal = diff / mx, in twentieths (whole for the pixels sampled here)
satOf(px) ==
  LET mx == Max3(px[1], px[2], px[3])
  IN  IF mx = 0 THEN 0 ELSE (20 * (mx - Min3(px[1], px[2], px[3]))) \div mx

\* vVal = mx / 255, in 255ths
valOf(px) == Max3(px[1], px[2], px[3])

RECURSIVE SumOver(_, _)
SumOver(f, S) ==
  IF S = {} THEN 0
  ELSE LET x == CHOOSE y \in S : TRUE IN f[x] + SumOver(f, S \ {x})

\* The gray levels at which a histogram has a count.
nonzero(grayHist) == {g \in DOMAIN grayHist : grayHist[g] # 0}

\* hist[0] + ... + hist[upTo], summed over the levels that have a count
histSum(grayHist, levels, upTo) == SumOver(grayHist, {g \in levels : g <= upTo})

\* 0 * hist[0] + ... + upTo * hist[upTo], likewise
histWeighted(grayHist, levels, upTo) ==
  SumOver([g \in levels |-> g * grayHist[g]], {g \in levels : g <= upTo})

\* wB * wF * (mB - mF) * (mB - mF) at step t, as a fraction:
\* mB - mF = (sumB * wF - (sum - sumB) * wB) / (wB * wF).
between(grayHist, levels, total, t) ==
  LET wB == histSum(grayHist, levels, t)
      wF == total - wB
      sumB == histWeighted(grayHist, levels, t)
      sum == histWeighted(grayHist, levels, 255)
      n == sumB * wF - (sum - sumB) * wB
  IN  Frac(n * n, wB * wF)

\* The loop body with `between >= maxVar` as the test for a new best.
otsuStepLast(grayHist, levels, total, t, st) ==
  IF st.done THEN st
  ELSE IF histSum(grayHist, levels, t) = 0 THEN st
  ELSE IF total - histSum(grayHist, levels, t) = 0 THEN [st EXCEPT !.done = TRUE]
  ELSE IF ~fracLess(between(grayHist, levels, total, t), st.maxVar)
       THEN [maxVar |-> between(grayHist, levels, total, t), threshold |-> t, done |-> FALSE]
       ELSE st

\* One pass of the loop body of otsuThreshold at step t; st holds maxVar, threshold
\* and whether the loop has hit its break.
otsuStep(grayHist, levels, total, t, st) ==
  IF st.done THEN st
  ELSE IF histSum(grayHist, levels, t) = 0 THEN st
  ELSE IF total - histSum(grayHist, levels, t) = 0 THEN [st EXCEPT !.done = TRUE]
  ELSE IF fracLess(st.maxVar, between(grayHist, levels, total, t))
       THEN [maxVar |-> between(grayHist, levels, total, t), threshold |-> t, done |-> FALSE]
       ELSE st

Only(S) == CHOOSE x \in S : TRUE

\* for (let t = lo; t <= hi; t++) { ... }: the steps lo..hi in order, run as the
\* steps of the lower half followed by the steps of the upper half.
RECURSIVE otsuSteps(_, _, _, _, _, _)
otsuSteps(grayHist, levels, total, lo, hi, st) ==
  IF lo = hi THEN otsuStep(grayHist, levels, total, lo, st)
  ELSE Only({otsuSteps(grayHist, levels, total, (lo + hi) \div 2 + 1, hi, mid) :
               mid \in {otsuSteps(grayHist, levels, total, lo, (lo + hi) \div 2, st)}})

\* otsuThreshold starting from a best variance of 20000.
otsuThresholdFrom(grayHist, total) ==
  Only({otsuSteps(h, levels, total, 0, 255,
                  [maxVar |-> Frac(20000, 1), threshold |-> 127, done |-> FALSE]).threshold :
          h \in {grayHist}, levels \in {nonzero(grayHist)}})

\* A threshold that stays at its initial value.
otsuThresholdInitial(grayHist, total) == 127

otsuThreshold(grayHist, total) ==
  Only({otsuSteps(h, levels, total, 0, 255,
                  [maxVar |-> Frac(-1, 1), threshold |-> 127, done |-> FALSE]).threshold :
          h \in {grayHist}, levels \in {nonzero(grayHist)}})

\* A decision list whose red test reads only the low end of the hue scale.
colorLabelLowRed(h, s255, v255) ==
  IF isNaN(h) \/ isNaN(s255) \/ isNaN(v255) THEN "unknown"
  ELSE IF fracLess(s255, Frac(40, 1)) /\ fracLess(v255, Frac(120, 1)) THEN "black"
  ELSE IF fracLess(s255, Frac(40, 1)) THEN "gray"
  ELSE IF fracLess(h, Frac(10, 1)) THEN "red"
  ELSE IF fracLess(h, Frac(25, 1)) THEN "orange/brown"
  ELSE IF fracLess(h, Frac(35, 1)) THEN "yellow/gold"
  ELSE IF fracLess(h, Frac(85, 1)) THEN "green"
  ELSE IF fracLess(h, Frac(130, 1)) THEN "blue"
  ELSE "purple"

\* colorLabelFromHSV(h, s255, v255) on fractions
colorLabelFromHSV(h, s255, v255) ==
  IF isNaN(h) \/ isNaN(s255) \/ isNaN(v255) THEN "unknown"
  ELSE IF fracLess(s255, Frac(40, 1)) /\ fracLess(v255, Frac(120, 1)) THEN "black"
  ELSE IF fracLess(s255, Frac(40, 1)) THEN "gray"
  ELSE IF fracLess(h, Frac(10, 1)) \/ fracLess(Frac(170, 1), h) THEN "red"
  ELSE IF fracLess(h, Frac(25, 1)) THEN "orange/brown"
  ELSE IF fracLess(h, Frac(35, 1)) THEN "yellow/gold"
  ELSE IF fracLess(h, Frac(85, 1)) THEN "green"
  ELSE IF fracLess(h, Frac(130, 1)) THEN "blue"
  ELSE "purple"

\* Math.round(x0 + 0.18 * cellW), Math.round(y0 + 0.18 * cellH)
innerX0(x0, cellW) == (100 * x0 + 18 * cellW + 50) \div 100
innerY0(y0, cellH) == (100 * y0 + 18 * cellH + 50) \div 100

\* An inner width with no minimum.
innerWUnclamped(x0, cellW) == (100 * x0 + 82 * cellW + 50) \div 100 - innerX0(x0, cellW)

\* Math.round(x0 + 0.18 * cellW) .. Math.round(x0 + 0.82 * cellW), at least 4 wide
innerW(x0, cellW) ==
  Max3(4, 4, (100 * x0 + 82 * cellW + 50) \div 100 - (100 * x0 + 18 * cellW + 50) \div 100)

\* Math.round(y0 + 0.18 * cellH) .. Math.round(y0 + 0.86 * cellH), at least 4 high
innerH(y0, cellH) ==
  Max3(4, 4, (100 * y0 + 86 * cellH + 50) \div 100 - (100 * y0 + 18 * cellH + 50) \div 100)

\* total after for (y = 0; y < innerH; y += 2) for (x = 0; x < innerW; x += 2)
sampleCount(w, h) == ((w + 1) \div 2) * ((h + 1) \div 2)

\* hist[gray]++ over the sampled pixels: samples maps a pixel to how many of the
\* sampled pixels have its value.
histOf(samples) ==
  [g \in 0..255 |-> SumOver(samples, {px \in DOMAIN samples : grayOf(px) = g})]

\* darkRatioMin ? darkRatio / darkRatioMin : darkRatio
scoreAgainst(value, min) == IF min.num # 0 THEN fracDiv(value, min) ELSE value

\* present when exactly one of the two comparisons holds.
presentEither(darkRatio, avgS, darkRatioMin, satMin) ==
  fracGeq(darkRatio, darkRatioMin) # fracGeq(avgS, satMin)

\* present, taken on the values as recorded in the row (three decimals).
presentRounded(darkRatio, avgS, darkRatioMin, satMin) ==
  fracGeq(rounded3(darkRatio), darkRatioMin) \/ fracGeq(rounded3(avgS), satMin)

\* const present = darkRatio >= darkRatioMin || avgS >= satMin
present(darkRatio, avgS, darkRatioMin, satMin) ==
  fracGeq(darkRatio, darkRatioMin) \/ fracGeq(avgS, satMin)

\* The confidence without the clamp.
confidenceUnclamped(darkRatio, avgS, darkRatioMin, satMin) ==
  fracAdd(fracMul(Frac(3, 5), scoreAgainst(darkRatio, darkRatioMin)),
          fracMul(Frac(2, 5), scoreAgainst(avgS, satMin)))

\* Math.max(0, Math.min(1, 0.6 * (...) + 0.4 * (...)))
confidence(darkRatio, avgS, darkRatioMin, satMin) ==
  clamp01(fracAdd(fracMul(Frac(3, 5), scoreAgainst(darkRatio, darkRatioMin)),
                  fracMul(Frac(2, 5), scoreAgainst(avgS, satMin))))

\* What the pass computes from the histogram and the sums of one cell, before the
\* thresholds are applied: total, Tgray, darkRatio, avgH, avgS, avgV (times 255).
statsFrom(hist, total, sumH2, sumS20, sumV255) ==
  LET Tgray == IF total > 0 THEN otsuThreshold(hist, total) ELSE 128
      count == IF total # 0 THEN total ELSE 1
  IN  [total |-> total,
       Tgray |-> Tgray,
       darkRatio |-> IF total # 0 THEN Frac(histSum(hist, nonzero(hist), Tgray), total)
                     ELSE Frac(0, 1),
       avgH |-> Frac(sumH2, 2 * count),
       avgS |-> Frac(sumS20, 20 * count),
       avgV255 |-> Frac(sumV255, count)]

\* The sampling loops over the pixels of one cell, then the statistics.
cellStats(samples) ==
  Only({statsFrom(hist, total,
                  SumOver([px \in DOMAIN samples |-> hueOf(px) * samples[px]], DOMAIN samples),
                  SumOver([px \in DOMAIN samples |-> satOf(px) * samples[px]], DOMAIN samples),
                  SumOver([px \in DOMAIN samples |-> valOf(px) * samples[px]], DOMAIN samples)) :
          hist \in {histOf(samples)}, total \in {SumOver(samples, DOMAIN samples)}})

\* The DetectionRow fields of one cell, with the unrounded darkRatio and avgS.
measure(stats, darkRatioMin, satMin) ==
  [total |-> stats.total,
   darkRatio |-> stats.darkRatio,
   avgS |-> stats.avgS,
   phonePresent |-> present(stats.darkRatio, stats.avgS, darkRatioMin, satMin),
   presenceScore |-> toFixed3(stats.darkRatio),
   satScore |-> toFixed3(stats.avgS),
   exactConfidence |-> confidence(stats.darkRatio, stats.avgS, darkRatioMin, satMin),
   confidence |-> toFixed3(confidence(stats.darkRatio, stats.avgS, darkRatioMin, satMin)),
   color |-> colorLabelFromHSV(stats.avgH, fracMul(Frac(255, 1), stats.avgS), stats.avgV255)]

\* Pixels the sampled patches are made of.
Black == <<0, 0, 0>>
Gray == <<200, 200, 200>>
Red == <<200, 0, 0>>
Pale == <<250, 200, 200>>
Palette == {Black, Gray, Red, Pale}

\* Cell sizes (cellW, cellH): an empty cell of a degenerate crop, and two others.
CellSizes == {<<0, 0>>, <<6, 6>>, <<10, 6>>}

\* The patches a cell of the given size can sample: every way of giving the
\* sampleCount samples pixel values of the palette.
Patches(size) ==
  {samples \in [Palette -> 0..6] :
     SumOver(samples, Palette) = sampleCount(innerW(0, size[1]), innerH(0, size[2]))}

CellInputs ==
  UNION {{[size |-> size, samples |-> samples] : samples \in Patches(size)} : size \in CellSizes}

\* cellStats of every input, computed once.
statsOf == [in \in CellInputs |-> cellStats(in.samples)]

\* Thresholds the two number inputs can hold (0..1).
DarkRatioMins == {Frac(0, 1), Frac(167, 1000), Frac(2, 5), Frac(1, 1)}
SatMins == {Frac(0, 1), Frac(1, 5), Frac(1, 1)}

NoCell == [total |-> 0, darkRatio |-> Frac(0, 1), avgS |-> Frac(0, 1), phonePresent |-> FALSE]

CellInput(in, darkRatioMin, satMin) ==
  [phase |-> "input", size |-> in.size, samples |-> in.samples,
   darkRatioMin |-> darkRatioMin, satMin |-> satMin, out |-> <<>>, prev |-> NoCell]

InitCell ==
  /\ started = FALSE
  /\ roster = <<>>
  /\ imageFile = FALSE
  /\ profiles = EmptyMap
  /\ store = <<>>
  /\ results = <<>>
  /\ pending = <<>>
  /\ last = Last("init", FALSE, FALSE)
  /\ clock = 2
  /\ codec = <<>>
  /\ grid = <<>>
  /\ \E in \in CellInputs, darkRatioMin \in DarkRatioMins, satMin \in SatMins :
       cell = CellInput(in, darkRatioMin, satMin)

\* The photometric pass over the first cell of a scan.
MeasureCell ==
  /\ cell.phase = "input"
  /\ cell' = [cell EXCEPT !.phase = "done",
                          !.out = measure(statsOf[[size |-> cell.size, samples |-> cell.samples]],
                                          cell.darkRatioMin, cell.satMin)]
  /\ UNCHANGED <<started, roster, imageFile, profiles, store, results, pending, last,
                 clock, codec, grid>>

\* The pass over the next cell of the same scan: other pixels, the same thresholds.
\* The pass is followed over two cells; prev keeps what the first one measured.
MeasureNextCell ==
  /\ cell.phase = "done"
  /\ cell.prev = NoCell
  /\ \E in \in CellInputs :
       cell' = [cell EXCEPT !.size = in.size, !.samples = in.samples,
                            !.out = measure(statsOf[in], cell.darkRatioMin, cell.satMin),
                            !.prev = [total |-> cell.out.total,
                                      darkRatio |-> cell.out.darkRatio,
                                      avgS |-> cell.out.avgS,
                                      phonePresent |-> cell.out.phonePresent]]
  /\ UNCHANGED <<started, roster, imageFile, profiles, store, results, pending, last,
                 clock, codec, grid>>

NextCell == MeasureCell \/ MeasureNextCell

SpecCell == InitCell /\ [][NextCell]_vars

\* ---------------------------------------------------------------- sampling rectangle
\* Cell sizes (cellW, cellH) the sampling rectangle is computed for, at crop
\* origins (L, T) 0 and 7, in the first and last row and column.
InnerCellSizes == {0, 1, 4, 5, 6, 10, 50, 100}

InitInner ==
  /\ started = FALSE
  /\ roster = <<>>
  /\ imageFile = FALSE
  /\ profiles = EmptyMap
  /\ store = <<>>
  /\ results = <<>>
  /\ pending = <<>>
  /\ last = Last("init", FALSE, FALSE)
  /\ clock = 2
  /\ codec = <<>>
  /\ cell = <<>>
  /\ \E L \in {0, 7}, T \in {0, 7}, rr \in {0, ROWS - 1}, cc \in {0, COLS - 1},
        cellW \in InnerCellSizes, cellH \in InnerCellSizes :
       grid = [phase |-> "input", x0 |-> L + cc * cellW, y0 |-> T + rr * cellH,
               cellW |-> cellW, cellH |-> cellH,
               innerX0 |-> 0, innerY0 |-> 0, innerW |-> 0, innerH |-> 0]

\* The rectangle passed to getImageData for one cell.
InsetCell ==
  /\ grid.phase = "input"
  /\ grid' = [grid EXCEPT !.phase = "done",
                          !.innerX0 = innerX0(grid.x0, grid.cellW),
                          !.innerY0 = innerY0(grid.y0, grid.cellH),
                          !.innerW = innerW(grid.x0, grid.cellW),
                          !.innerH = innerH(grid.y0, grid.cellH)]
  /\ UNCHANGED <<started, roster, imageFile, profiles, store, results, pending, last,
                 clock, codec, cell>>

NextInner == InsetCell

SpecInner == InitInner /\ [][NextInner]_vars

\* ---------------------------------------------------------------- color labels
NaN == Frac(0, 0)

\* The arguments tried: NaN and numbers (halves included) around the limits of
\* the decision list, hues in 0..180, saturations and values in 0..255.
ColorInputs(whole, half) == {NaN} \cup {Frac(n, 1) : n \in whole} \cup {Frac(half, 2)}

InitColor ==
  /\ started = FALSE
  /\ roster = <<>>
  /\ imageFile = FALSE
  /\ profiles = EmptyMap
  /\ store = <<>>
  /\ results = <<>>
  /\ pending = <<>>
  /\ last = Last("init", FALSE, FALSE)
  /\ clock = 2
  /\ codec = <<>>
  /\ grid = <<>>
  /\ \E h \in ColorInputs({0, 9, 10, 24, 25, 34, 35, 84, 85, 129, 130, 170, 171, 180}, 19)
               \cup {Frac(341, 2)},
        s255 \in ColorInputs({0, 39, 40, 255}, 79),
        v255 \in ColorInputs({0, 119, 120, 255}, 239) :
       cell = [phase |-> "input", h |-> h, s255 |-> s255, v255 |-> v255, color |-> null]

LabelColor ==
  /\ cell.phase = "input"
  /\ cell' = [cell EXCEPT !.phase = "done",
                          !.color = colorLabelFromHSV(cell.h, cell.s255, cell.v255)]
  /\ UNCHANGED <<started, roster, imageFile, profiles, store, results, pending, last,
                 clock, codec, grid>>

NextColor == LabelColor

SpecColor == InitColor /\ [][NextColor]_vars

\* ---------------------------------------------------------------- Otsu scaling
\* Gray levels the histograms have counts at, and the histograms: up to four
\* samples spread over these levels.
OtsuLevels == {0, 1, 60, 127, 128, 255}
OtsuCounts == {c \in [OtsuLevels -> 0..4] : SumOver(c, OtsuLevels) \in 1..4}

\* new Array(256).fill(0) with the counts at their levels
grayHistOf(counts) == [g \in 0..255 |-> IF g \in DOMAIN counts THEN counts[g] ELSE 0]

\* Every bucket count doubled.
doubled(grayHist) == [g \in DOMAIN grayHist |-> 2 * grayHist[g]]

InitOtsu ==
  /\ started = FALSE
  /\ roster = <<>>
  /\ imageFile = FALSE
  /\ profiles = EmptyMap
  /\ store = <<>>
  /\ results = <<>>
  /\ pending = <<>>
  /\ last = Last("init", FALSE, FALSE)
  /\ clock = 2
  /\ codec = <<>>
  /\ grid = <<>>
  /\ \E counts \in OtsuCounts :
       cell = [phase |-> "input", counts |-> counts, threshold |-> 0,
               darkRatio |-> Frac(0, 1), thresholdDoubled |-> 0]

\* Tgray and darkRatio of a cell with this histogram, and
\* otsuThreshold(2 * hist, 2 * total)
ThresholdBoth ==
  /\ cell.phase = "input"
  /\ \E hist \in {grayHistOf(cell.counts)}, total \in {SumOver(cell.counts, OtsuLevels)} :
       \E stats \in {statsFrom(hist, total, 0, 0, 0)} :
         cell' = [cell EXCEPT !.phase = "done",
                              !.threshold = stats.Tgray,
                              !.darkRatio = stats.darkRatio,
                              !.thresholdDoubled = otsuThreshold(doubled(hist), 2 * total)]
  /\ UNCHANGED <<started, roster, imageFile, profiles, store, results, pending, last,
                 clock, codec, grid>>

NextOtsu == ThresholdBoth

SpecOtsu == InitOtsu /\ [][NextOtsu]_vars

\* ================================================================ claims
\* The persisted store read back as a map.
Persisted == loadProfiles(store)

\* The identifiers a file's records are merged under.
FileIds(file) ==
  {toUpperCase(file.arr[j].securityNumber) : j \in 1..Len(file.arr)} \ {<<>>}

\* The color of the last record of the file for an identifier.
LastColor(file, id) ==
  LET js == {j \in 1..Len(file.arr) : toUpperCase(file.arr[j].securityNumber) = id}
  IN  file.arr[CHOOSE j \in js : \A j2 \in js : j2 <= j].color

\* Whether a row of the results is joined to a roster entry.
Assigned(r) == r.fullName # null

\* ---------------------------------------------------------------- C1
\* C1: a scan leaves every baseline that exists before it unchanged (color and
\* lastUpdated, in memory and in the persisted store), whatever color it detects;
\* a present, assigned row whose detected color differs from the baseline color
\* gets status SUSPICIOUS.
C1_ScanKeepsBaselines ==
  [][last'.op = "scan" =>
       /\ \A id \in DOMAIN profiles : Has(profiles', id) /\ profiles'[id] = profiles[id]
       /\ \A id \in DOMAIN Persisted : Has(Persisted', id) /\ Persisted'[id] = Persisted[id]
       /\ \A k \in 1..Len(results') :
            ( /\ Assigned(results'[k])
              /\ results'[k].phonePresent
              /\ truthy(colorOf(profiles, results'[k].securityNumber))
              /\ results'[k].color # colorOf(profiles, results'[k].securityNumber) )
            => results'[k].status = "SUSPICIOUS"]_vars

\* A scan has just flagged a row whose baseline, learned before the session,
\* still holds its old color and time.
C1_Witness ==
  /\ last.op = "scan"
  /\ \E k \in 1..Len(results) :
       /\ results[k].status = "SUSPICIOUS"
       /\ Has(profiles, results[k].securityNumber)
       /\ profiles[results[k].securityNumber].color # results[k].color
       /\ profiles[results[k].securityNumber].lastUpdated = 1
       /\ Has(Persisted, results[k].securityNumber)
       /\ Persisted[results[k].securityNumber] = profiles[results[k].securityNumber]

\* ---------------------------------------------------------------- C2
\* The four rules in order, first match wins, from the roster, the row's presence
\* and color, and the baseline color stored before the scan.
C2Expected(ros, prior, r) ==
  IF ~(\E i \in 1..Len(ros) : ros[i].securityNumber = r.securityNumber) THEN "UNASSIGNED"
  ELSE IF ~r.phonePresent THEN "MISSING"
  ELSE IF /\ Has(prior, r.securityNumber)
          /\ truthy(prior[r.securityNumber].color)
          /\ r.color # prior[r.securityNumber].color THEN "SUSPICIOUS"
  ELSE "TURNED_IN"

\* C2: every row a scan produces has the status the ordered derivation gives:
\* UNASSIGNED without a roster match, else MISSING when not present, else SUSPICIOUS
\* when a baseline color is stored and the detected color differs, else TURNED_IN.
C2_StatusDerivation ==
  [][last'.op = "scan" =>
       \A k \in 1..Len(results') :
         results'[k].status = C2Expected(roster, profiles, results'[k])]_vars

\* One scan has produced an unassigned row, a row flagged against a baseline that
\* was stored before the scan, and a row turned in.
C2_Witness ==
  /\ last.op = "scan"
  /\ \E k \in 1..Len(results) : results[k].status = "UNASSIGNED"
  /\ \E k \in 1..Len(results) : results[k].status = "SUSPICIOUS"
  /\ \E k \in 1..Len(results) : results[k].status = "TURNED_IN"

\* ---------------------------------------------------------------- C3
\* C3: a scan creates a baseline for exactly the identifiers whose row is assigned
\* (joined to a roster entry), present, and without a baseline before the scan; the
\* new baseline holds the row's detected color, the row's expectedColor is
\* backfilled with it, and the row is not made SUSPICIOUS.
C3_ScanLearnsAssignedPresent ==
  [][last'.op = "scan" =>
       /\ \A k \in 1..Len(results') :
            LET r == results'[k]
                created == Has(profiles', r.securityNumber) /\ ~Has(profiles, r.securityNumber)
            IN  /\ created <=>
                     (Assigned(r) /\ r.phonePresent /\ ~Has(profiles, r.securityNumber))
                /\ created =>
                     /\ profiles'[r.securityNumber].color = r.color
                     /\ r.expectedColor = r.color
                     /\ r.status # "SUSPICIOUS"
       /\ \A id \in DOMAIN profiles' \ DOMAIN profiles :
            \E k \in 1..Len(results') : results'[k].securityNumber = id]_vars

\* ---------------------------------------------------------------- C4
\* What C4 says of an import of `file` that has just completed.
C4Post(file) ==
  /\ \A id \in FileIds(file) :
       /\ Has(profiles', id) /\ profiles'[id].color = LastColor(file, id)
       /\ Has(Persisted', id) /\ Persisted'[id].color = LastColor(file, id)
  /\ \A id \in DOMAIN profiles \ FileIds(file) :
       Has(profiles', id) /\ profiles'[id] = profiles[id]
  /\ \A id \in DOMAIN Persisted \ FileIds(file) :
       Has(Persisted', id) /\ Persisted'[id] = Persisted[id]

\* C4: a valid import sets the stored baseline of every imported identifier to the
\* imported color and leaves every stored entry that is not in the import unchanged.
C4_ImportMerges ==
  [][\A i \in 1..Len(pending), file \in ValidFiles :
       importFinish(i, file) => C4Post(file)]_vars

\* ---------------------------------------------------------------- C5
\* C5: a structurally invalid payload is rejected whole: the alert is raised and
\* the profiles, the persisted store and the displayed results are unchanged.
C5_InvalidImportRejected ==
  [][\A i \in 1..Len(pending), file \in InvalidFiles :
       importFinish(i, file) =>
         (last'.alert /\ profiles' = profiles /\ store' = store /\ results' = results)]_vars

\* ---------------------------------------------------------------- C6
\* C6: under any interleaving of the startup load, scans and imports, the set of
\* identifiers in the persisted store never shrinks.
C6_PersistedNeverShrinks ==
  [][DOMAIN Persisted \subseteq DOMAIN Persisted']_vars

\* ---------------------------------------------------------------- C7
\* C7: the store after a completed import is the map that import captured when it
\* started, overridden by its file's records, and nothing else: what a scan or
\* another import wrote in between is not merged in.  A scan writes the map it has
\* just built from the current profiles.
C7_LaterWriterWins ==
  [][/\ \A i \in 1..Len(pending), file \in Files :
          (importFinish(i, file) /\ ~last'.alert) =>
            /\ DOMAIN Persisted' = DOMAIN pending[i].profiles \cup FileIds(file)
            /\ \A id \in DOMAIN pending[i].profiles \ FileIds(file) :
                 Persisted'[id] = pending[i].profiles[id]
            /\ \A id \in FileIds(file) : Persisted'[id].color = LastColor(file, id)
     /\ (last'.op = "scan" /\ store' # store) =>
          /\ Persisted' = profiles'
          /\ \A id \in DOMAIN profiles : Persisted'[id] = profiles[id]]_vars

\* An import has completed whose captured profiles were out of date, after the
\* startup load, and the store holds none of the identifiers it had not captured.
C7_Witness ==
  /\ last.op = "import"
  /\ ~last.alert
  /\ last.stale
  /\ started
  /\ Len(results) # 0
  /\ \E k \in 1..Len(results) :
       /\ Assigned(results[k]) /\ results[k].phonePresent
       /\ ~Has(Persisted, results[k].securityNumber)

\* ---------------------------------------------------------------- C8
\* C8: parsing the text built from a valid (grade, box, slot) returns the same
\* grade, box and slot; for SM1 and SM2 the text carries no grade and the parsed
\* grade is null, with box and slot preserved.
C8_RoundTrip ==
  codec.phase = "done" =>
    IF codec.box \in {SM1, SM2}
    THEN /\ codec.parsed.ok
         /\ codec.parsed.grade = NoGrade
         /\ codec.parsed.box = codec.box
         /\ codec.parsed.slot = codec.slot
         /\ SubSeq(codec.text, 1, 3) = codec.box
         /\ ~IsDigit(codec.text[1])
    ELSE /\ codec.parsed.ok
         /\ codec.parsed.grade = codec.grade
         /\ codec.parsed.box = codec.box
         /\ codec.parsed.slot = codec.slot

\* A standalone-box identifier has been built and parsed back.
C8_Witness ==
  /\ codec.phase = "done"
  /\ codec.box = SM2
  /\ codec.slot = 23
  /\ codec.text = <<"S", "M", "2", "-", "2", "3">>
  /\ codec.parsed.ok

\* ---------------------------------------------------------------- C9
InCell(c, x, y) == c.x0 <= x /\ x < c.x0 + c.w /\ c.y0 <= y /\ y < c.y0 + c.h

\* The cells whose outer rectangle holds the pixel (x, y).
Covering(x, y) == {k \in 1..Len(grid.cells) : InCell(grid.cells[k], x, y)}

CellsInsideCrop ==
  \A k \in 1..Len(grid.cells) :
    /\ grid.L <= grid.cells[k].x0
    /\ grid.cells[k].x0 + grid.cells[k].w <= grid.RR
    /\ grid.T <= grid.cells[k].y0
    /\ grid.cells[k].y0 + grid.cells[k].h <= grid.B

\* C9 as stated: the outer rectangles do not overlap and their union is exactly
\* the crop box, so every pixel of the crop box lies in exactly one cell.
C9_TilesCropBox ==
  grid.phase = "done" =>
    /\ CellsInsideCrop
    /\ \A x \in grid.L..(grid.RR - 1), y \in grid.T..(grid.B - 1) :
         Cardinality(Covering(x, y)) = 1

\* C9 amended: the outer rectangles do not overlap, lie inside the crop box, and
\* their union is [L, L + COLS*cellW) x [T, T + ROWS*cellH); the crop box's last
\* (R - L) mod COLS columns and (B - T) mod ROWS rows of pixels are in no cell.
C9_TilesFlooredBox ==
  grid.phase = "done" =>
    /\ CellsInsideCrop
    /\ \A x \in grid.L..(grid.RR - 1), y \in grid.T..(grid.B - 1) :
         Cardinality(Covering(x, y)) =
           IF x < grid.L + COLS * grid.cellW /\ y < grid.T + ROWS * grid.cellH
           THEN 1 ELSE 0
    /\ grid.RR - grid.L - COLS * grid.cellW = (grid.RR - grid.L) % COLS
    /\ grid.B - grid.T - ROWS * grid.cellH = (grid.B - grid.T) % ROWS

\* A grid of non-empty cells has been mapped onto a crop box whose width is not a
\* multiple of the column count.
C9_Witness ==
  /\ grid.phase = "done"
  /\ grid.cellW > 0
  /\ grid.cellH > 0
  /\ (grid.RR - grid.L) % COLS # 0

\* ---------------------------------------------------------------- C10
\* The cells whose look varies between photos.
VaryingCells == {<<0, 0>>, <<3, 0>>}

\* C10: the results of a scan are ROWS*COLS rows in ascending slot order, the k-th
\* row having slot k, and the row of the cell at (row, column) is the one with slot
\* row*COLS + column + 1 (so the cell at row 3, column 0 is slot 37).
C10_SixtyRowsInSlotOrder ==
  Len(results) # 0 =>
    /\ Len(results) = ROWS * COLS
    /\ \A k \in 1..Len(results) :
         /\ results[k].slot = k
         /\ results[k].securityNumber = buildSecurityNumber(grade, box, k)
    /\ \A c \in Cells \ VaryingCells :
         ~results[c[1] * COLS + c[2] + 1].phonePresent
    /\ results[37].slot = 3 * COLS + 0 + 1

\* A scan has put the phone photographed at row 3, column 0 in slot 37.
C10_Witness ==
  /\ last.op = "scan"
  /\ Len(results) = 60
  /\ results[37].phonePresent /\ results[37].color = "red"
  /\ ~results[1].phonePresent

\* ---------------------------------------------------------------- C11
\* C11: a cell is present if and only if its unrounded dark ratio is at least the
\* dark-ratio threshold or its unrounded average saturation is at least the
\* saturation threshold; either comparison alone suffices.
C11_PresenceRule ==
  cell.phase = "done" =>
    (cell.out.phonePresent <=>
       ( \/ cell.out.darkRatio.num * cell.darkRatioMin.den
              >= cell.darkRatioMin.num * cell.out.darkRatio.den
         \/ cell.out.avgS.num * cell.satMin.den >= cell.satMin.num * cell.out.avgS.den ))

\* Two cells of one scan are present, the first by its dark ratio alone and the
\* second by its saturation alone.
C11_Witness ==
  /\ cell.phase = "done"
  /\ cell.prev # NoCell
  /\ cell.prev.phonePresent
  /\ fracGeq(cell.prev.darkRatio, cell.darkRatioMin)
  /\ fracLess(cell.prev.avgS, cell.satMin)
  /\ cell.out.phonePresent
  /\ fracLess(cell.out.darkRatio, cell.darkRatioMin)
  /\ fracGeq(cell.out.avgS, cell.satMin)

\* ---------------------------------------------------------------- C12
\* C12: with the thresholds held fixed, a cell whose dark ratio and average
\* saturation are both at least those of a present cell is present too.
C12_PresenceMonotonic ==
  [][( /\ cell.phase = "done"
       /\ cell'.phase = "done"
       /\ cell'.darkRatioMin = cell.darkRatioMin
       /\ cell'.satMin = cell.satMin
       /\ cell.out.phonePresent
       /\ cell'.out.darkRatio.num * cell.out.darkRatio.den
            >= cell.out.darkRatio.num * cell'.out.darkRatio.den
       /\ cell'.out.avgS.num * cell.out.avgS.den >= cell.out.avgS.num * cell'.out.avgS.den )
     => cell'.out.phonePresent]_vars

\* A present cell has been followed by a cell with a higher dark ratio and a
\* higher saturation, which is present.
C12_Witness ==
  /\ cell.phase = "done"
  /\ cell.prev # NoCell
  /\ cell.prev.phonePresent
  /\ fracLess(cell.prev.darkRatio, cell.out.darkRatio)
  /\ fracLess(cell.prev.avgS, cell.out.avgS)
  /\ fracLess(cell.out.darkRatio, Frac(1, 1))
  /\ cell.out.phonePresent

\* ---------------------------------------------------------------- C13
\* clamp01(0.6 * (darkRatio / minDarkRatio) + 0.4 * (avgSaturation / minSaturation))
\* for the cell measured, as an exact fraction.
C13Exact ==
  LET x == fracAdd(fracMul(Frac(3, 5), fracDiv(cell.out.darkRatio, cell.darkRatioMin)),
                   fracMul(Frac(2, 5), fracDiv(cell.out.avgS, cell.satMin)))
  IN  IF x.num > x.den THEN Frac(1, 1) ELSE x

\* The spec's example: thresholds 0.40 and 0.20, dark ratio 0.50, saturation 0.05.
C13Example ==
  /\ cell.darkRatioMin = Frac(2, 5)
  /\ cell.satMin = Frac(1, 5)
  /\ fracEq(cell.out.darkRatio, Frac(1, 2))
  /\ fracEq(cell.out.avgS, Frac(1, 20))

\* C13 as stated: with nonzero thresholds the row's confidence equals the clamped
\* weighted sum and lies in [0, 1]; the example gives 0.85.
C13_ConfidenceExact ==
  (cell.phase = "done" /\ cell.darkRatioMin.num # 0 /\ cell.satMin.num # 0) =>
    /\ cell.out.confidence * C13Exact.den = 1000 * C13Exact.num
    /\ 0 <= cell.out.confidence /\ cell.out.confidence <= 1000
    /\ C13Example => cell.out.confidence = 850

\* C13 amended: with nonzero thresholds the row's confidence is the clamped
\* weighted sum rounded to three decimals (within 0.0005 of it) and lies in [0, 1];
\* the example gives 0.85.
C13_ConfidenceRounded ==
  (cell.phase = "done" /\ cell.darkRatioMin.num # 0 /\ cell.satMin.num # 0) =>
    /\ 2 * (1000 * C13Exact.num - cell.out.confidence * C13Exact.den) <= C13Exact.den
    /\ 2 * (cell.out.confidence * C13Exact.den - 1000 * C13Exact.num) < C13Exact.den
    /\ 0 <= cell.out.confidence /\ cell.out.confidence <= 1000
    /\ C13Example => cell.out.confidence = 850

\* The example has been measured, and after it a cell whose weighted sum exceeds 1.
C13_Witness ==
  /\ cell.phase = "done"
  /\ cell.prev # NoCell
  /\ cell.darkRatioMin = Frac(2, 5)
  /\ cell.satMin = Frac(1, 5)
  /\ fracEq(cell.prev.darkRatio, Frac(1, 2))
  /\ fracEq(cell.prev.avgS, Frac(1, 20))
  /\ cell.out.confidence = 1000
  /\ fracLess(Frac(1, 1), confidenceUnclamped(cell.out.darkRatio, cell.out.avgS,
                                               cell.darkRatioMin, cell.satMin))

\* ---------------------------------------------------------------- C17
\* C17: a cell whose region holds no pixel to sample yields no samples, dark ratio
\* 0, color "unknown" and phonePresent false, whatever the two thresholds are.
C17_ZeroSampleCell ==
  (cell.phase = "done" /\ cell.size[1] * cell.size[2] = 0) =>
    /\ cell.out.total = 0
    /\ cell.out.darkRatio.num = 0
    /\ cell.out.color = "unknown"
    /\ ~cell.out.phonePresent

\* ---------------------------------------------------------------- C14
\* C14: doubling every bucket count of a histogram, and the total, leaves the
\* threshold otsuThreshold chooses unchanged.
C14_OtsuScaleInvariant ==
  cell.phase = "done" => cell.thresholdDoubled = cell.threshold

\* A histogram with counts at three levels has been thresholded, at a level that
\* is neither the first one nor the default.
C14_Witness ==
  /\ cell.phase = "done"
  /\ Cardinality({g \in OtsuLevels : cell.counts[g] # 0}) >= 3
  /\ cell.threshold = 60
  /\ cell.thresholdDoubled = 60

\* ---------------------------------------------------------------- C15
\* The baseline color a map holds for an identifier, null when it holds none.
BaselineColor(map, id) == IF id \in DOMAIN map THEN map[id].color ELSE null

\* C15 as stated: every row of a scan has as expectedColor the color of the
\* baseline stored for its identifier when the scan reconciles (null if none),
\* whatever its status.
C15_ExpectedIsPriorBaseline ==
  [][last'.op = "scan" =>
       \A k \in 1..Len(results') :
         results'[k].expectedColor = BaselineColor(profiles, results'[k].securityNumber)]_vars

\* C15 amended: every row of a scan has as expectedColor the color of the baseline
\* stored for its identifier when the scan completes: the baseline that was stored
\* when the scan reconciled if there was one, otherwise the baseline this scan
\* learned from the row (the row's detected color), and null if there is neither;
\* whatever its status.
C15_ExpectedIsBaselineAfterScan ==
  [][last'.op = "scan" =>
       \A k \in 1..Len(results') :
         LET r == results'[k]
             id == r.securityNumber
         IN  /\ r.expectedColor = BaselineColor(profiles', id)
             /\ id \in DOMAIN profiles => r.expectedColor = profiles[id].color
             /\ (id \notin DOMAIN profiles /\ id \in DOMAIN profiles') =>
                  r.expectedColor = r.color
             /\ id \notin DOMAIN profiles' => r.expectedColor = null]_vars

\* A scan has flagged one row against its stored baseline and learned the baseline
\* of another, whose expectedColor is its own color.
C15_Witness ==
  /\ last.op = "scan"
  /\ \E k \in 1..Len(results) :
       /\ results[k].status = "SUSPICIOUS"
       /\ results[k].expectedColor # results[k].color
       /\ results[k].expectedColor = BaselineColor(profiles, results[k].securityNumber)
  /\ \E k \in 1..Len(results) :
       /\ results[k].status = "TURNED_IN"
       /\ results[k].expectedColor = results[k].color
       /\ results[k].securityNumber \in DOMAIN profiles
       /\ profiles[results[k].securityNumber].lastUpdated > 1

\* ---------------------------------------------------------------- C16
\* Whether no entry of the roster has the row's identifier.
NoRosterEntry(ros, r) == \A i \in 1..Len(ros) : ros[i].securityNumber # r.securityNumber

\* C16 as stated: a row whose identifier has no roster entry has status UNASSIGNED
\* and expectedColor null, whatever was detected.
C16_UnassignedNoExpected ==
  [][results' # results =>
       \A k \in 1..Len(results') :
         NoRosterEntry(roster', results'[k]) =>
           /\ results'[k].status = "UNASSIGNED"
           /\ results'[k].expectedColor = null]_vars

\* C16 amended: a row whose identifier has no roster entry has status UNASSIGNED,
\* whatever was detected; its expectedColor is the color of the baseline stored for
\* the identifier (by an import or an earlier session), null when none is stored;
\* a scan never creates a baseline for it.
C16_UnassignedKeepsStoredExpected ==
  [][results' # results =>
       \A k \in 1..Len(results') :
         NoRosterEntry(roster', results'[k]) =>
           /\ results'[k].status = "UNASSIGNED"
           /\ results'[k].expectedColor = BaselineColor(profiles', results'[k].securityNumber)
           /\ last'.op = "scan" =>
                (results'[k].securityNumber \in DOMAIN profiles'
                   <=> results'[k].securityNumber \in DOMAIN profiles)]_vars

\* A scan has found a phone in a cell without roster entry whose identifier has an
\* imported baseline of another color.
C16_Witness ==
  /\ last.op = "scan"
  /\ \E k \in 1..Len(results) :
       /\ NoRosterEntry(roster, results[k])
       /\ results[k].phonePresent
       /\ results[k].status = "UNASSIGNED"
       /\ results[k].expectedColor = "red"
       /\ results[k].color = "black"

\* ---------------------------------------------------------------- C18
\* The text upper-cased, with all of its whitespace removed.
C18Normal(text) == toUpperCase(SelectSeq(text, LAMBDA c : c # " "))

C18Digits(s) == \A i \in 1..Len(s) : s[i] \in {"0", "1", "2", "3", "4", "5", "6", "7", "8", "9"}

\* The number a text of one to three digits denotes.
C18Value(s) ==
  IF Len(s) = 1 THEN DigitVal(s[1])
  ELSE IF Len(s) = 2 THEN 10 * DigitVal(s[1]) + DigitVal(s[2])
  ELSE 100 * DigitVal(s[1]) + 10 * DigitVal(s[2]) + DigitVal(s[3])

\* grade (1-2 digits) + box (A-F) + slot (1-3 digits), split after g digits
C18GradeBox(n, g) ==
  /\ Len(n) \in (g + 2)..(g + 4)
  /\ C18Digits(SubSeq(n, 1, g))
  /\ n[g + 1] \in {"A", "B", "C", "D", "E", "F"}
  /\ C18Digits(SubSeq(n, g + 2, Len(n)))

\* SM1 or SM2 + optional hyphen + slot (1-3 digits), the slot starting at k
C18Standalone(n, k) ==
  /\ Len(n) \in k..(k + 2)
  /\ SubSeq(n, 1, 3) \in {<<"S", "M", "1">>, <<"S", "M", "2">>}
  /\ k = 5 => n[4] = "-"
  /\ C18Digits(SubSeq(n, k, Len(n)))

\* What the grammar of C18 gives for a normalized text.
C18Expected(n) ==
  IF \E k \in {4, 5} : C18Standalone(n, k)
  THEN LET k == CHOOSE k \in {4, 5} : C18Standalone(n, k)
       IN  [ok |-> TRUE, grade |-> NoGrade, box |-> SubSeq(n, 1, 3),
            slot |-> C18Value(SubSeq(n, k, Len(n)))]
  ELSE IF \E g \in {1, 2} : C18GradeBox(n, g)
  THEN LET g == CHOOSE g \in {1, 2} : C18GradeBox(n, g)
       IN  [ok |-> TRUE, grade |-> C18Value(SubSeq(n, 1, g)), box |-> <<n[g + 1]>>,
            slot |-> C18Value(SubSeq(n, g + 2, Len(n)))]
  ELSE NoParse

\* C18: parseSecurityNumber returns, for the text trimmed, upper-cased and without
\* whitespace, the grade, box and slot when it is grade (1-2 digits) + box (A-F) +
\* slot (1-3 digits), a null grade with box and slot when it is SM1 or SM2 +
\* optional hyphen + slot (1-3 digits), and null for every other text; "10F12" gives
\* {10, F, 12}, "SM2-23" gives {null, SM2, 23}, "7Z9" gives null.
C18_ParseGrammar ==
  codec.phase = "done" =>
    /\ codec.parsed = C18Expected(C18Normal(codec.text))
    /\ codec.text = <<"1", "0", "F", "1", "2">> =>
         codec.parsed = [ok |-> TRUE, grade |-> 10, box |-> <<"F">>, slot |-> 12]
    /\ codec.text = <<"S", "M", "2", "-", "2", "3">> =>
         codec.parsed = [ok |-> TRUE, grade |-> NoGrade, box |-> SM2, slot |-> 23]
    /\ codec.text = <<"7", "Z", "9">> => ~codec.parsed.ok

\* " 10f 12 " has been parsed to {10, F, 12}.
C18_Witness ==
  /\ codec.phase = "done"
  /\ codec.text = <<" ", "1", "0", "f", " ", "1", "2", " ">>
  /\ codec.parsed = [ok |-> TRUE, grade |-> 10, box |-> <<"F">>, slot |-> 12]

\* ---------------------------------------------------------------- C19
\* C19: for every roster entry whose securityNumber text parses to the grade, box
\* and slot of a cell of the scanned box, the row of that cell is joined to an
\* entry (its status is not UNASSIGNED), whichever accepted form the text has.
C19_JoinThroughCodec ==
  Len(results) # 0 =>
    \A i \in 1..Len(roster) :
      ( /\ parseSecurityNumber(roster[i].securityNumber).ok
        /\ parseSecurityNumber(roster[i].securityNumber).grade = grade
        /\ parseSecurityNumber(roster[i].securityNumber).box = box
        /\ parseSecurityNumber(roster[i].securityNumber).slot \in 1..(ROWS * COLS) )
      => results[parseSecurityNumber(roster[i].securityNumber).slot].status # "UNASSIGNED"

\* ---------------------------------------------------------------- C20
\* The roster entries that have an identifier.
C20Entries(id) == {i \in 1..Len(roster) : roster[i].securityNumber = id}

\* C20: when several roster entries have the identifier of a row, the row carries
\* the personId, fullName and currentGrade of the last of them in roster order,
\* and the scan raises no error.
C20_LastRosterEntryWins ==
  Len(results) # 0 =>
    /\ \A k \in 1..Len(results) :
         C20Entries(results[k].securityNumber) # {} =>
           \E i \in C20Entries(results[k].securityNumber) :
             /\ \A j \in C20Entries(results[k].securityNumber) : j <= i
             /\ results[k].personId = roster[i].personId
             /\ results[k].fullName = roster[i].fullName
             /\ results[k].currentGrade = roster[i].currentGrade
    /\ last.op = "scan" => ~last.alert

\* A scan has joined slot 37, which two roster entries claim, to the second one.
C20_Witness ==
  /\ last.op = "scan"
  /\ Cardinality(C20Entries(results[37].securityNumber)) = 2
  /\ results[37].personId = "p4"
  /\ results[37].fullName = "Cy"
  /\ results[37].currentGrade = "10"

\* ---------------------------------------------------------------- C21
\* The fields of a row that a scan detects or joins and nothing later changes.
DetectionFields(r) ==
  [slot |-> r.slot, securityNumber |-> r.securityNumber,
   phonePresent |-> r.phonePresent, color |-> r.color, personId |-> r.personId,
   fullName |-> r.fullName, currentGrade |-> r.currentGrade]

\* C21: an import that completes leaves the displayed rows as many as they were
\* and in the same order, and changes in no row the slot, identifier, presence,
\* detected color or roster fields: only expectedColor and status may differ.
C21_ImportKeepsDetections ==
  [][(last'.op = "import" /\ ~last'.alert) =>
       /\ Len(results') = Len(results)
       /\ \A k \in 1..Len(results) :
            DetectionFields(results'[k]) = DetectionFields(results[k])]_vars

\* ---------------------------------------------------------------- C25
\* C25: after every completed scan or import, every displayed row has as
\* expectedColor the color of the in-memory baseline of its identifier, or null
\* when the map has no entry for it.
C25_ExpectedTracksMap ==
  [][last'.op \in {"scan", "import"} =>
       \A k \in 1..Len(results') :
         results'[k].expectedColor = BaselineColor(profiles', results'[k].securityNumber)]_vars

\* ---------------------------------------------------------------- C26
\* C26: after an import completes, every displayed row has the status the
\* four-rule derivation gives for its roster match, presence and detected color
\* against the map the import leaves, rows joined to an entry with an empty
\* fullName included.
C26_StatusAfterImport ==
  [][(last'.op = "import" /\ ~last'.alert) =>
       \A k \in 1..Len(results') :
         results'[k].status = C2Expected(roster', profiles', results'[k])]_vars

\* ---------------------------------------------------------------- C27
\* The fields of a row that a repeated scan must reproduce.
ScanOutcome(r) ==
  [phonePresent |-> r.phonePresent, color |-> r.color, status |-> r.status,
   expectedColor |-> r.expectedColor]

\* C27: a scan that directly follows a scan of the same picture yields rows with
\* the same phonePresent, color, status and expectedColor, and leaves the
\* baseline map and the persisted store unchanged.
C27_ScanIdempotent ==
  [][last'.again =>
       /\ Len(results') = Len(results)
       /\ \A k \in 1..Len(results') : ScanOutcome(results'[k]) = ScanOutcome(results[k])
       /\ profiles' = profiles
       /\ store' = store]_vars

\* The second of two scans of one picture has run, after the first one learned the
\* red phone of slot 37 as a baseline.
C27_Witness ==
  /\ last.again
  /\ results[37].phonePresent
  /\ results[37].status = "TURNED_IN"
  /\ results[37].expectedColor = "red"
  /\ Has(profiles, Id37)

\* ---------------------------------------------------------------- C28
\* The identifiers of the records of the persisted store.
StoredIds == {toUpperCase(store[j].securityNumber) : j \in 1..Len(store)}

\* C28: once the startup load has run, and after an import that completed before
\* it, the in-memory map and the persisted store hold the same identifiers with
\* the same colors.
C28_MapMatchesStore ==
  (started \/ (last.op = "import" /\ ~last.alert)) =>
    /\ DOMAIN profiles = StoredIds
    /\ \A j \in 1..Len(store) :
         profiles[toUpperCase(store[j].securityNumber)].color = store[j].color

\* A scan has learned the baseline of slot 37 and the store holds it.
C28_Witness ==
  /\ last.op = "scan"
  /\ Has(profiles, Id37)
  /\ \E j \in 1..Len(store) : store[j].securityNumber = Id37 /\ store[j].color = "red"

\* ---------------------------------------------------------------- C22
\* Samples of the cell's histogram at or below a gray level, and their gray sum.
C22Below(t) == SumOver(cell.counts, {g \in OtsuLevels : g <= t})
C22SumBelow(t) == SumOver([g \in OtsuLevels |-> g * cell.counts[g]], {g \in OtsuLevels : g <= t})

\* The thresholds that leave samples on both sides.
C22Candidates == {t \in 0..255 : C22Below(t) > 0 /\ C22Below(255) - C22Below(t) > 0}

\* wB * wF * (mB - mF)^2 for a candidate threshold.
C22Variance(t) ==
  LET wB == C22Below(t)
      wF == C22Below(255) - wB
      mB == Frac(C22SumBelow(t), wB)
      mF == Frac(C22SumBelow(255) - C22SumBelow(t), wF)
      d == mB.num * mF.den - mF.num * mB.den
  IN  fracMul(Frac(wB * wF, 1), Frac(d * d, mB.den * mF.den * mB.den * mF.den))

\* C22: for a histogram with samples on both sides of some threshold, the
\* threshold chosen is the lowest t in 0..255 whose inter-class variance
\* wB*wF*(mB-mF)^2 is the largest among the thresholds with non-empty background
\* and foreground; the dark ratio is the count of samples at or below the chosen
\* threshold divided by the total; with a total of 0 the threshold is the fixed
\* mid-level 128.
C22_OtsuLowestMaximizer ==
  cell.phase = "done" =>
    /\ C22Candidates # {} =>
         /\ cell.threshold \in C22Candidates
         /\ \A u \in C22Candidates :
              /\ ~fracLess(C22Variance(cell.threshold), C22Variance(u))
              /\ u < cell.threshold => fracLess(C22Variance(u), C22Variance(cell.threshold))
    /\ fracEq(cell.darkRatio, Frac(C22Below(cell.threshold), C22Below(255)))
    /\ statsFrom([g \in 0..255 |-> 0], 0, 0, 0, 0).Tgray = 128

\* One sample each at 0, 60 and 255: every threshold from 60 to 254 has the largest
\* variance, 60 is chosen and two of the three samples are dark.
C22_Witness ==
  /\ cell.phase = "done"
  /\ cell.counts = [g \in OtsuLevels |-> IF g \in {0, 60, 255} THEN 1 ELSE 0]
  /\ cell.threshold = 60
  /\ fracEq(cell.darkRatio, Frac(2, 3))

\* ---------------------------------------------------------------- C30
\* The gray levels the cell has samples at.
C30Levels == {g \in OtsuLevels : cell.counts[g] # 0}

\* C30: a cell whose samples share one gray level keeps the threshold 127 and has
\* dark ratio 1 when that level is at most 127 and 0 otherwise; a cell with two or
\* more gray levels has a dark ratio strictly between 0 and 1.
C30_DarkRatioExtremes ==
  cell.phase = "done" =>
    /\ Cardinality(C30Levels) = 1 =>
         /\ cell.threshold = 127
         /\ \A g \in C30Levels :
              fracEq(cell.darkRatio, IF g <= 127 THEN Frac(1, 1) ELSE Frac(0, 1))
    /\ Cardinality(C30Levels) >= 2 =>
         /\ fracLess(Frac(0, 1), cell.darkRatio)
         /\ fracLess(cell.darkRatio, Frac(1, 1))

\* Three samples, all at gray level 128: the threshold is 127 and no sample is dark.
C30_Witness ==
  /\ cell.phase = "done"
  /\ cell.counts = [g \in OtsuLevels |-> IF g = 128 THEN 3 ELSE 0]
  /\ cell.threshold = 127
  /\ fracEq(cell.darkRatio, Frac(0, 1))

\* ---------------------------------------------------------------- C23
\* The nine labels.
C23Labels ==
  {"unknown", "black", "gray", "red", "orange/brown", "yellow/gold", "green", "blue",
   "purple"}

\* h, s255 or v255 below a limit or above it, and h within [lo, hi).
C23Under(q, limit) == q.num < limit * q.den
C23Over(q, limit) == q.num > limit * q.den
C23Hue(lo, hi) == ~C23Under(cell.h, lo) /\ C23Under(cell.h, hi)

\* C23: the label is unknown exactly when an input is NaN; otherwise black for
\* S < 40 and V < 120, gray for S < 40 and V >= 120, and for S >= 40 red for
\* H < 10 or H > 170, orange/brown for 10 <= H < 25, yellow/gold for 25 <= H < 35,
\* green for 35 <= H < 85, blue for 85 <= H < 130 and purple for 130 <= H <= 170:
\* one of the nine labels for every input, red at both ends of the hue scale.
C23_ColorDecisionList ==
  cell.phase = "done" =>
    /\ cell.color \in C23Labels
    /\ cell.color = "unknown" <=> (cell.h.den = 0 \/ cell.s255.den = 0 \/ cell.v255.den = 0)
    /\ cell.color # "unknown" =>
         /\ cell.color = "black" <=> (C23Under(cell.s255, 40) /\ C23Under(cell.v255, 120))
         /\ cell.color = "gray" <=> (C23Under(cell.s255, 40) /\ ~C23Under(cell.v255, 120))
         /\ ~C23Under(cell.s255, 40) =>
              /\ cell.color = "red" <=> (C23Under(cell.h, 10) \/ C23Over(cell.h, 170))
              /\ cell.color = "orange/brown" <=> C23Hue(10, 25)
              /\ cell.color = "yellow/gold" <=> C23Hue(25, 35)
              /\ cell.color = "green" <=> C23Hue(35, 85)
              /\ cell.color = "blue" <=> C23Hue(85, 130)
              /\ cell.color = "purple" <=> (~C23Under(cell.h, 130) /\ ~C23Over(cell.h, 170))
         /\ (~C23Under(cell.s255, 40) /\ cell.h \in {Frac(0, 1), Frac(180, 1)}) =>
              cell.color = "red"

\* Hue 180 with full saturation has been labelled red.
C23_Witness ==
  /\ cell.phase = "done"
  /\ cell.h = Frac(180, 1)
  /\ cell.s255 = Frac(255, 1)
  /\ cell.v255 = Frac(255, 1)
  /\ cell.color = "red"

\* ---------------------------------------------------------------- C24
\* The margins the sampling rectangle leaves inside the cell, in pixels.
MarginLeft == grid.innerX0 - grid.x0
MarginRight == (grid.x0 + grid.cellW) - (grid.innerX0 + grid.innerW)
MarginTop == grid.innerY0 - grid.y0
MarginBottom == (grid.y0 + grid.cellH) - (grid.innerY0 + grid.innerH)

\* Cells in which the margin fractions are whole pixels.
C24Exact == grid.cellW \in {50, 100} /\ grid.cellH \in {50, 100}

\* C24 as stated: the horizontal margin fraction is narrower than the top margin
\* fraction, the bottom margin fraction is larger than the top one, and the
\* rectangle never has zero area.
C24_MarginsAsStated ==
  grid.phase = "done" =>
    /\ C24Exact =>
         /\ MarginLeft * grid.cellH < MarginTop * grid.cellW
         /\ MarginRight * grid.cellH < MarginTop * grid.cellW
         /\ MarginBottom > MarginTop
    /\ grid.innerW > 0
    /\ grid.innerH > 0

\* C24: the left, right and top margins are 18% of the cell's width or height and
\* the bottom margin is 14% of its height, smaller than the top one; the width and
\* height of the rectangle are at least 4, so it never has zero area.
C24_MarginsOfCode ==
  grid.phase = "done" =>
    /\ C24Exact =>
         /\ 100 * MarginLeft = 18 * grid.cellW
         /\ 100 * MarginRight = 18 * grid.cellW
         /\ 100 * MarginTop = 18 * grid.cellH
         /\ 100 * MarginBottom = 14 * grid.cellH
         /\ MarginBottom < MarginTop
    /\ grid.innerW >= 4
    /\ grid.innerH >= 4

\* A 100 x 100 cell has been inset by 18, 18, 18 and 14 pixels.
C24_Witness ==
  /\ grid.phase = "done"
  /\ grid.cellW = 100
  /\ grid.cellH = 100
  /\ MarginLeft = 18
  /\ MarginRight = 18
  /\ MarginTop = 18
  /\ MarginBottom = 14

\* ---------------------------------------------------------------- C29
\* C29: the sampling rectangle (innerX0, innerY0, innerW, innerH) of a cell lies
\* within the cell's outer rectangle (x0, y0, cellW, cellH).
C29_InnerInsideOuter ==
  grid.phase = "done" =>
    /\ grid.x0 <= grid.innerX0
    /\ grid.innerX0 + grid.innerW <= grid.x0 + grid.cellW
    /\ grid.y0 <= grid.innerY0
    /\ grid.innerY0 + grid.innerH <= grid.y0 + grid.cellH

====
